---------------------------- MODULE Spec2Model ----------------------------
(***************************************************************************)
(* A model of the execution layer of gwf.                                  *)
(*                                                                         *)
(* Part 1, the local cluster (src/src/gwf/backends/local.py): the Server   *)
(* with its scheduling pass and message handlers, the Workers, the Client  *)
(* and the Cluster thread that starts and stops them.  A Connection is a   *)
(* pair of FIFO queues of messages, one per direction.                     *)
(*                                                                         *)
(* Part 2, the Slurm backend (src/gwf/backends/slurm.py): the job          *)
(* database, the live job-state snapshot and configure().                  *)
(***************************************************************************)
EXTENDS Integers, Sequences, FiniteSets, TLC

(***************************************************************************)
(* Bounds of the model.                                                    *)
(***************************************************************************)
\* number of tasks the client submits at most
MaxTasks == 3
\* Cluster.num_workers: the number of workers the cluster connects
NumWorkers == 1
\* number of Client.status() calls at most
MaxStatusCalls == 1

(***************************************************************************)
(* LocalStatus, the enum of task states, by value.                         *)
(***************************************************************************)
UNKNOWN == 0
SUBMITTED == 1
RUNNING == 2
FAILED == 3
COMPLETED == 4

LocalStatus == {UNKNOWN, SUBMITTED, RUNNING, FAILED, COMPLETED}

\* LocalStatus.<member>.name, what CustomEncoder and _update_state put on the wire
StatusName(v) ==
    CASE v = UNKNOWN -> "UNKNOWN"
      [] v = SUBMITTED -> "SUBMITTED"
      [] v = RUNNING -> "RUNNING"
      [] v = FAILED -> "FAILED"
      [] v = COMPLETED -> "COMPLETED"

\* LocalStatus[name], the lookup of a member by its name
StatusByName(n) == CHOOSE v \in LocalStatus : StatusName(v) = n

(***************************************************************************)
(* Identities.  Task ids are generated fresh by the client (uuid4), so the *)
(* k-th generated id is called k.  Workers are Worker1..WorkerN; a         *)
(* worker's connection is named by its worker id, the client's is 0.       *)
(***************************************************************************)
TaskIds == 1..MaxTasks
Workers == 1..NumWorkers
ClientConn == 0
Conns == Workers \cup {ClientConn}
\* the value of "no worker" / "no task" / a deleted dict entry
None == 0
\* what dict.get gives for a task id that has no state
NoStatus == -1

Range(s) == {s[i] : i \in DOMAIN s}

\* the sequences that list every element of the set S once: the orders in
\* which iterating over a Python set can visit its elements
Orderings(S) ==
    {s \in [1..Cardinality(S) -> S] : \A i, j \in 1..Cardinality(S) : s[i] = s[j] => i = j}

\* json.dumps of a set through CustomEncoder.default: a list of its elements
RECURSIVE EncodeSet(_)
EncodeSet(S) ==
    IF S = {} THEN <<>>
    ELSE LET m == CHOOSE x \in S : \A y \in S : x <= y
         IN <<m>> \o EncodeSet(S \ {m})

\* frozenset(dependencies) in Server.handle_submit_task
DecodeSet(l) == Range(l)

(***************************************************************************)
(* Messages: Connection.send(msg_type, **msg).                             *)
(***************************************************************************)
JoinWorkerMsg(w) == [type |-> "join_worker", worker_id |-> w]
\* variant: the worker leaves without naming itself
LeaveWorkerMsgUnnamed(w) == [type |-> "leave_worker", worker_id |-> 0]

LeaveWorkerMsg(w) == [type |-> "leave_worker", worker_id |-> w]
CloseMsg == [type |-> "close"]
ShutdownMsg == [type |-> "shutdown"]
SubmitTaskMsg(t, deps) ==
    [type |-> "submit_task", task_id |-> t, dependencies |-> EncodeSet(deps)]
UpdateTaskStateMsg(t, st) ==
    [type |-> "update_task_state", task_id |-> t, new_state |-> StatusName(st)]
GetTaskStatesMsg == [type |-> "get_task_states"]
RunTaskMsg(t) == [type |-> "run_task", task_id |-> t]

VARIABLES
    \* ---- Server
    tasks,               \* Server._tasks: task id -> its dependency set
    task_states,         \* Server._task_states: task id -> LocalStatus
    pending_tasks,       \* Server._pending_tasks
    joined_workers,      \* Server._joined_workers: the dict's entries in insertion
                         \* order, a deleted entry left as None
    used_workers,        \* Server._used_workers: task id -> worker id
    shutdown_requested,  \* Server._shutdown_requested
    conns,               \* Server._conns: the registered connections
    server_pc,           \* "loop", "exited" or "crashed" (a handler raised)
    \* ---- Connections
    to_server,           \* per connection, the lines sent to the server, unread
    from_server,         \* per connection, the lines the server sent, unread
    \* ---- Workers
    worker_pc,           \* "new", "recv", "running", "done"
    worker_task,         \* the task a worker is running, or None
    worker_shutdown,     \* Worker._shutdown_requested
    \* ---- Cluster
    cluster_pc,          \* "connect", "wait", "iterate", "set_flag", "join",
                         \* "returned", "raised"
    cluster_shutdown,    \* Cluster._shutdown_requested
    connected,           \* number of workers Cluster.start has connected
    iter_pos,            \* Server.shutdown: position of the dict iterator
    iter_size,           \* Server.shutdown: the dict's size when iteration began
    \* ---- Client
    client_pc,           \* "new", "ready", "status_wait" or "failed"
    generated,           \* number of task ids generated by Client.submit
    workflow,            \* task id -> the dependency ids Client.submit was given
    status_calls,        \* number of Client.status() calls made
    submitted_before,    \* ids Client.submit had returned when status() was called
    last_status,         \* what Client.status() returned, until the client's next call
    ops_error,           \* the exception the construction of LocalOps raised, or "none"
    \* ---- Observation
    run_sent,            \* task id -> number of run_task messages sent for it
    pass_view,           \* the task states and the pending set the last scheduling
                         \* pass began with
    \* ---- Slurm backend
    squeue_out,          \* the lines squeue prints: a sequence of <<id, code, deps>>
    db_file,             \* content of .gwf/slurm-backend-jobdb.json
    job_db,              \* SlurmBackend._job_db
    live_job_states,     \* SlurmBackend._live_job_states
    slurm_pc,            \* "idle", "configured", "raised", "dump_write",
                         \* "dump_sync", "dump_rename", "closed", "crashed"
    tmp_file,            \* content of .gwf/slurm-backend-jobdb.json.new
    tool_calls,          \* the sbatch and scancel runs of the last operation
    slurm_error,         \* the exception the last operation raised, if any
    slurm_op,            \* the last operation called and its target
    target_options,      \* target.options: the <<name, value>> pairs in the order
                         \* items() yields them
    script               \* the submission script generated for the target

serverVars == <<tasks, task_states, pending_tasks, joined_workers, used_workers,
                shutdown_requested, conns, server_pc>>
chanVars == <<to_server, from_server>>
workerVars == <<worker_pc, worker_task, worker_shutdown>>
clusterVars == <<cluster_pc, cluster_shutdown, connected, iter_pos, iter_size>>
clientVars == <<client_pc, generated, workflow, status_calls, submitted_before,
                last_status, ops_error>>
obsVars == <<run_sent, pass_view>>
localVars == <<serverVars, chanVars, workerVars, clusterVars, clientVars, obsVars>>
slurmOpVars == <<tmp_file, tool_calls, slurm_error, slurm_op>>
scriptVars == <<target_options, script>>
slurmVars == <<squeue_out, db_file, job_db, live_job_states, slurm_pc, slurmOpVars,
               scriptVars>>
vars == <<localVars, slurmVars>>

(***************************************************************************)
(* Server._joined_workers is a dict: iteration follows insertion order,    *)
(* and a deleted key leaves a dead entry behind until the dict is resized  *)
(* (which does not happen with so few insertions).                         *)
(***************************************************************************)
JoinedIds(joined) == {joined[i] : i \in DOMAIN joined} \ {None}

\* self._joined_workers[worker_id] = JoinedWorker(worker_id, conn)
DictInsert(joined, w) == IF w \in JoinedIds(joined) THEN joined ELSE Append(joined, w)

\* variant: the entry stays
DictDeleteKeeps(joined, w) == joined

\* del self._joined_workers[worker_id]
DictDelete(joined, w) == [i \in DOMAIN joined |-> IF joined[i] = w THEN None ELSE joined[i]]

\* len(dict)
DictSize(joined) == Cardinality(JoinedIds(joined))

\* self._task_states.get(dep_id)
StateOf(ts, d) == IF d \in DOMAIN ts THEN ts[d] ELSE NoStatus

(***************************************************************************)
(* Server._schedule_once.  The loop reads self._task_states and            *)
(* self._used_workers, and writes neither before it ends: its results are  *)
(* collected in failed_tasks, scheduled_tasks and used_workers and applied *)
(* after the loop.  So every pending task is judged against the tables as  *)
(* they were when the pass began.                                          *)
(***************************************************************************)
\* variant: all(...) in place of any(...)
HasFailedDepAll(ts, deps) == deps # {} /\ \A d \in deps : StateOf(ts, d) = FAILED

\* any(self._task_states.get(dep_id) == LocalStatus.FAILED for dep_id in ...)
HasFailedDep(ts, deps) == \E d \in deps : StateOf(ts, d) = FAILED

\* variant: a dependency that has no state yet does not hold the task back
HasUnfinishedDepKnown(ts, deps) == \E d \in deps \cap DOMAIN ts : ts[d] # COMPLETED

\* any(self._task_states.get(dep_id) != LocalStatus.COMPLETED for dep_id in ...)
HasUnfinishedDep(ts, deps) == \E d \in deps : StateOf(ts, d) # COMPLETED

\* the tasks the loop adds to failed_tasks
FailedTasks(ts, tk, pend) == {t \in pend : HasFailedDep(ts, tk[t])}

\* variant: only tasks without dependencies reach the worker scan
ReadyTasksWithoutDeps(ts, tk, pend) == {t \in pend : tk[t] = {}}

\* the tasks that reach the worker scan
ReadyTasks(ts, tk, pend) ==
    {t \in pend : ~HasFailedDep(ts, tk[t]) /\ ~HasUnfinishedDep(ts, tk[t])}

\* variant: the worker scan takes the first joined worker, assigned or not
FreeWorkerAnyJoined(joined, used) ==
    LET free == {i \in DOMAIN joined : joined[i] # None}
    IN IF free = {} THEN None
       ELSE joined[CHOOSE i \in free : \A j \in free : i <= j]

\* the worker scan: the first joined worker that is not a value of
\* self._used_workers, or None when the scan ends without a break
FreeWorker(joined, used) ==
    LET free == {i \in DOMAIN joined : joined[i] # None /\ joined[i] \notin Range(used)}
    IN IF free = {} THEN None
       ELSE joined[CHOOSE i \in free : \A j \in free : i <= j]

\* the tasks the loop adds to scheduled_tasks: self._used_workers is the same
\* for every task of the pass, so each ready task finds the same worker
ScheduledTasks(ts, tk, pend, joined, used) ==
    IF FreeWorker(joined, used) = None THEN {} ELSE ReadyTasks(ts, tk, pend)

\* variant: the assignments of the pass are not recorded
UpdateUsedNothing(used, sched, w) == used

\* self._used_workers.update(used_workers)
UpdateUsed(used, sched, w) ==
    [t \in DOMAIN used \cup sched |-> IF t \in sched THEN w ELSE used[t]]

\* variant: the scheduled tasks are not removed from the pending set
RemainingPendingKeepsScheduled(pend, sched, failed) == pend \ failed

\* variant: the failed tasks are not removed from the pending set
RemainingPendingKeepsFailed(pend, sched, failed) == pend \ sched

\* the two loops after the pass: scheduled and failed tasks leave the pending set
RemainingPending(pend, sched, failed) == (pend \ sched) \ failed

\* the pass, run on the tables a handler has produced; order is the order
\* in which the loop visits the tasks it schedules
ScheduleOnce(ts, tk, pend, joined, used, order) ==
    LET failed == FailedTasks(ts, tk, pend)
        sched == ScheduledTasks(ts, tk, pend, joined, used)
        w == FreeWorker(joined, used)
    IN /\ Range(order) = sched
       /\ used_workers' = UpdateUsed(used, sched, w)
       /\ pending_tasks' = RemainingPending(pend, sched, failed)
       /\ task_states' = [t \in DOMAIN ts |-> IF t \in failed THEN FAILED ELSE ts[t]]
       /\ from_server' =
            IF sched = {} THEN from_server
            ELSE [from_server EXCEPT
                    ![w] = @ \o [i \in 1..Len(order) |-> RunTaskMsg(order[i])]]
       /\ run_sent' = [t \in TaskIds |-> IF t \in sched THEN run_sent[t] + 1 ELSE run_sent[t]]
       /\ pass_view' = [states |-> ts, pending |-> pend]

\* the orders in which one pass can visit the tasks it schedules
PassOrders(ts, tk, pend, joined, used) ==
    Orderings(ScheduledTasks(ts, tk, pend, joined, used))

(***************************************************************************)
(* Dict helpers.                                                           *)
(***************************************************************************)
\* d[k] = v
Put(f, k, v) == [x \in DOMAIN f \cup {k} |-> IF x = k THEN v ELSE f[x]]

\* del d[k], for a key that is present
Del(f, k) == [x \in DOMAIN f \ {k} |-> f[x]]

Send(chan, c, m) == [chan EXCEPT ![c] = Append(@, m)]

(***************************************************************************)
(* The Server's event loop and its handlers.  One step is one wake-up of   *)
(* a readable connection: _read receives one message and dispatches it to  *)
(* handle_<type>, which runs to its end on the event-loop thread.          *)
(***************************************************************************)
\* variant: the loop ends as soon as shutdown has been requested
ServerLoopCondUntilRequested(requested, joined) == ~requested

\* the condition of the while loop of Server.start
ServerLoopCond(requested, joined) == ~requested \/ JoinedIds(joined) # {}

\* variant: only a FAILED report frees the worker
IsTerminalOnlyFailed(st) == st = FAILED

\* new_state in (LocalStatus.COMPLETED, LocalStatus.FAILED)
IsTerminal(st) == st \in {COMPLETED, FAILED}

\* variant: only the tasks that have left the state SUBMITTED are reported
TaskStatesReplyStarted(ts) ==
    [k \in {t \in DOMAIN ts : ts[t] # SUBMITTED} |-> StatusName(ts[k])]

\* {k: v.name for k, v in self._task_states.items()}
TaskStatesReply(ts) == [k \in DOMAIN ts |-> StatusName(ts[k])]

TaskStatesMsg(ts) == [type |-> "task_states", tasks |-> TaskStatesReply(ts)]

\* the guard of every handler: the loop is running and _read gets the next
\* message of connection c
Readable(c, type) ==
    /\ server_pc = "loop"
    /\ ServerLoopCond(shutdown_requested, joined_workers)
    /\ c \in conns
    /\ to_server[c] # <<>>
    /\ Head(to_server[c]).type = type

Receive(c) == to_server' = [to_server EXCEPT ![c] = Tail(@)]

\* what no server handler touches
ServerFrame ==
    UNCHANGED <<shutdown_requested, workerVars, clusterVars, clientVars, slurmVars>>

handle_join_worker(c) ==
    /\ Readable(c, "join_worker")
    /\ Receive(c)
    /\ LET w == Head(to_server[c]).worker_id
           joined == DictInsert(joined_workers, w)
       IN /\ joined_workers' = joined
          /\ \E order \in PassOrders(task_states, tasks, pending_tasks, joined, used_workers) :
                ScheduleOnce(task_states, tasks, pending_tasks, joined, used_workers, order)
    /\ UNCHANGED <<tasks, conns, server_pc>>
    /\ ServerFrame

handle_leave_worker(c) ==
    /\ Readable(c, "leave_worker")
    /\ Receive(c)
    /\ LET w == Head(to_server[c]).worker_id
       IN IF w \in JoinedIds(joined_workers)
          THEN /\ joined_workers' = DictDelete(joined_workers, w)
               /\ UNCHANGED server_pc
          ELSE \* KeyError
               /\ server_pc' = "crashed"
               /\ UNCHANGED joined_workers
    /\ UNCHANGED <<tasks, task_states, pending_tasks, used_workers, conns,
                   from_server, obsVars>>
    /\ ServerFrame

handle_update_task_state(c) ==
    /\ Readable(c, "update_task_state")
    /\ Receive(c)
    /\ LET t == Head(to_server[c]).task_id
           new_state == StatusByName(Head(to_server[c]).new_state)
           ts == Put(task_states, t, new_state)
       IN IF IsTerminal(new_state) /\ t \notin DOMAIN used_workers
          THEN \* KeyError from del self._used_workers[task_id]
               /\ task_states' = ts
               /\ server_pc' = "crashed"
               /\ UNCHANGED <<pending_tasks, used_workers, from_server, obsVars>>
          ELSE LET used == IF IsTerminal(new_state) THEN Del(used_workers, t)
                           ELSE used_workers
               IN /\ \E order \in PassOrders(ts, tasks, pending_tasks, joined_workers, used) :
                        ScheduleOnce(ts, tasks, pending_tasks, joined_workers, used, order)
                  /\ UNCHANGED server_pc
    /\ UNCHANGED <<tasks, joined_workers, conns>>
    /\ ServerFrame

handle_get_task_states(c) ==
    /\ Readable(c, "get_task_states")
    /\ Receive(c)
    /\ from_server' = Send(from_server, c, TaskStatesMsg(task_states))
    /\ UNCHANGED <<serverVars, obsVars>>
    /\ ServerFrame

handle_submit_task(c) ==
    /\ Readable(c, "submit_task")
    /\ Receive(c)
    /\ LET t == Head(to_server[c]).task_id
           tk == Put(tasks, t, DecodeSet(Head(to_server[c]).dependencies))
           ts == Put(task_states, t, SUBMITTED)
           pend == pending_tasks \cup {t}
       IN /\ tasks' = tk
          /\ \E order \in PassOrders(ts, tk, pend, joined_workers, used_workers) :
                ScheduleOnce(ts, tk, pend, joined_workers, used_workers, order)
    /\ UNCHANGED <<joined_workers, conns, server_pc>>
    /\ ServerFrame

handle_close(c) ==
    /\ Readable(c, "close")
    /\ Receive(c)
    /\ conns' = conns \ {c}
    /\ from_server' = Send(from_server, c, CloseMsg)
    /\ UNCHANGED <<tasks, task_states, pending_tasks, joined_workers, used_workers,
                   server_pc, obsVars>>
    /\ ServerFrame

\* the while loop of Server.start ends
ServerExit ==
    /\ server_pc = "loop"
    /\ ~ServerLoopCond(shutdown_requested, joined_workers)
    /\ server_pc' = "exited"
    /\ UNCHANGED <<tasks, task_states, pending_tasks, joined_workers, used_workers,
                   shutdown_requested, conns, chanVars, workerVars, clusterVars,
                   clientVars, obsVars, slurmVars>>

(***************************************************************************)
(* Worker.  A worker is one thread: Worker.start receives a message and    *)
(* runs its handler to the end before it receives the next one.            *)
(***************************************************************************)
\* exit codes of the bash subprocess of a task
ExitCodes == {0, 1}

\* variant: every task that ends is reported COMPLETED
TaskOutcomeCompleted(shutdown_seen, returncode) == COMPLETED

\* the state Worker.run_task reports last: FAILED when the poll loop saw
\* self._shutdown_requested or the return code is not 0, else COMPLETED
TaskOutcome(shutdown_seen, returncode) ==
    IF shutdown_seen \/ returncode # 0 THEN FAILED ELSE COMPLETED

WorkerFrame == UNCHANGED <<serverVars, clusterVars, clientVars, obsVars, slurmVars>>

\* Worker.start receives run_task: handle_run_task, run_task up to the poll loop
WorkerRunTask(w) ==
    /\ worker_pc[w] = "recv"
    /\ ~worker_shutdown[w]
    /\ from_server[w] # <<>>
    /\ Head(from_server[w]).type = "run_task"
    /\ LET t == Head(from_server[w]).task_id
       IN /\ to_server' = Send(to_server, w, UpdateTaskStateMsg(t, RUNNING))
          /\ worker_task' = [worker_task EXCEPT ![w] = t]
    /\ from_server' = [from_server EXCEPT ![w] = Tail(@)]
    /\ worker_pc' = [worker_pc EXCEPT ![w] = "running"]
    /\ UNCHANGED worker_shutdown
    /\ WorkerFrame

\* the subprocess of the running task ends (or the poll loop raises), run_task
\* reports the outcome and the worker is back in the loop of Worker.start
WorkerFinishTask(w, returncode) ==
    /\ worker_pc[w] = "running"
    /\ to_server' = Send(to_server, w,
                         UpdateTaskStateMsg(worker_task[w],
                                            TaskOutcome(worker_shutdown[w], returncode)))
    /\ worker_task' = [worker_task EXCEPT ![w] = None]
    /\ worker_pc' = [worker_pc EXCEPT ![w] = "recv"]
    /\ UNCHANGED <<from_server, worker_shutdown>>
    /\ WorkerFrame

\* Worker.start receives shutdown: handle_shutdown sets the flag, the loop
\* ends, the worker sends leave_worker and closes its connection
WorkerShutdown(w) ==
    /\ worker_pc[w] = "recv"
    /\ ~worker_shutdown[w]
    /\ from_server[w] # <<>>
    /\ Head(from_server[w]).type = "shutdown"
    /\ from_server' = [from_server EXCEPT ![w] = Tail(@)]
    /\ worker_shutdown' = [worker_shutdown EXCEPT ![w] = TRUE]
    /\ to_server' = [to_server EXCEPT ![w] = @ \o <<LeaveWorkerMsg(w), CloseMsg>>]
    /\ worker_pc' = [worker_pc EXCEPT ![w] = "done"]
    /\ UNCHANGED worker_task
    /\ WorkerFrame

(***************************************************************************)
(* Cluster.  Cluster.start runs on the thread that created the cluster;    *)
(* Cluster.shutdown is called from outside and only sets a flag.           *)
(* Server.shutdown is called by Cluster.start, so it runs on the cluster's *)
(* thread while the event loop runs on the server's: each pass through its *)
(* for loop is a step of its own.                                          *)
(***************************************************************************)
ClusterFrame == UNCHANGED <<tasks, task_states, pending_tasks, joined_workers,
                            used_workers, server_pc, clientVars, obsVars, slurmVars>>

\* one pass of the for loop of Cluster.start: Worker.connect and the start of
\* the worker's thread (the server's accept of the connection included)
ClusterConnectWorker ==
    /\ cluster_pc = "connect"
    /\ LET w == connected + 1
       IN /\ conns' = conns \cup {w}
          /\ to_server' = Send(to_server, w, JoinWorkerMsg(w))
          /\ worker_pc' = [worker_pc EXCEPT ![w] = "recv"]
          /\ connected' = w
          /\ cluster_pc' = IF w = NumWorkers THEN "wait" ELSE "connect"
    /\ UNCHANGED <<shutdown_requested, from_server, worker_task, worker_shutdown,
                   cluster_shutdown, iter_pos, iter_size>>
    /\ ClusterFrame

\* Cluster.shutdown
ClusterShutdown ==
    /\ ~cluster_shutdown
    /\ cluster_pc \in {"connect", "wait"}
    /\ cluster_shutdown' = TRUE
    /\ UNCHANGED <<shutdown_requested, conns, chanVars, workerVars, cluster_pc,
                   connected, iter_pos, iter_size>>
    /\ ClusterFrame

\* the wait loop of Cluster.start ends and Server.shutdown begins to iterate
\* over self._joined_workers.items()
ServerShutdownBegin ==
    /\ cluster_pc = "wait"
    /\ cluster_shutdown
    /\ cluster_pc' = "iterate"
    /\ iter_pos' = 1
    /\ iter_size' = DictSize(joined_workers)
    /\ UNCHANGED <<shutdown_requested, conns, chanVars, workerVars, cluster_shutdown,
                   connected>>
    /\ ClusterFrame

\* the entries the iterator has still to visit
EntriesLeft(joined, pos) == {i \in DOMAIN joined : i >= pos /\ joined[i] # None}

\* one step of the dict iterator: RuntimeError when the dict changed size
\* since the iteration began, else worker.shutdown() for the next entry, else
\* the end of the loop
ServerShutdownNext ==
    /\ cluster_pc = "iterate"
    /\ IF DictSize(joined_workers) # iter_size
       THEN /\ cluster_pc' = "raised"
            /\ UNCHANGED <<from_server, iter_pos>>
       ELSE IF EntriesLeft(joined_workers, iter_pos) = {}
       THEN /\ cluster_pc' = "set_flag"
            /\ UNCHANGED <<from_server, iter_pos>>
       ELSE LET i == CHOOSE i \in EntriesLeft(joined_workers, iter_pos) :
                        \A j \in EntriesLeft(joined_workers, iter_pos) : i <= j
            IN /\ from_server' = Send(from_server, joined_workers[i], ShutdownMsg)
               /\ iter_pos' = i + 1
               /\ UNCHANGED cluster_pc
    /\ UNCHANGED <<shutdown_requested, conns, to_server, workerVars, cluster_shutdown,
                   connected, iter_size>>
    /\ ClusterFrame

\* self._shutdown_requested = True, the last statement of Server.shutdown
ServerShutdownSetFlag ==
    /\ cluster_pc = "set_flag"
    /\ shutdown_requested' = TRUE
    /\ cluster_pc' = "join"
    /\ UNCHANGED <<conns, chanVars, workerVars, cluster_shutdown, connected,
                   iter_pos, iter_size>>
    /\ ClusterFrame

\* self._server_thread.join() returns: the server's thread has ended
ClusterJoin ==
    /\ cluster_pc = "join"
    /\ server_pc \in {"exited", "crashed"}
    /\ cluster_pc' = "returned"
    /\ UNCHANGED <<shutdown_requested, conns, chanVars, workerVars, cluster_shutdown,
                   connected, iter_pos, iter_size>>
    /\ ClusterFrame

(***************************************************************************)
(* Client.                                                                 *)
(***************************************************************************)
ClientFrame == UNCHANGED <<serverVars, workerVars, clusterVars, obsVars, slurmVars>>

\* Client.submit: a fresh task id, one submit_task message, no reply awaited
ClientSubmit(deps) ==
    /\ client_pc = "ready"
    /\ generated < MaxTasks
    /\ LET task_id == generated + 1
       IN /\ task_id \notin deps
          /\ to_server' = Send(to_server, ClientConn, SubmitTaskMsg(task_id, deps))
          /\ generated' = task_id
          /\ workflow' = Put(workflow, task_id, deps)
    /\ last_status' = <<>>
    /\ UNCHANGED <<from_server, client_pc, status_calls, submitted_before, ops_error>>
    /\ ClientFrame

\* Client.status up to conn.recv()
ClientStatusCall ==
    /\ client_pc = "ready"
    /\ status_calls < MaxStatusCalls
    /\ to_server' = Send(to_server, ClientConn, GetTaskStatesMsg)
    /\ status_calls' = status_calls + 1
    /\ submitted_before' = 1..generated
    /\ client_pc' = "status_wait"
    /\ last_status' = <<>>
    /\ UNCHANGED <<from_server, generated, workflow, ops_error>>
    /\ ClientFrame

\* {k: LocalStatus[v] for k, v in response["tasks"].items()}
DecodeStatus(reply) == [k \in DOMAIN reply |-> StatusByName(reply[k])]

\* Client.status from conn.recv() on
ClientStatusReturn ==
    /\ client_pc = "status_wait"
    /\ from_server[ClientConn] # <<>>
    /\ LET m == Head(from_server[ClientConn])
       IN IF m.type = "task_states"
          THEN /\ last_status' = DecodeStatus(m.tasks)
               /\ client_pc' = "ready"
          ELSE \* AssertionError
               /\ client_pc' = "failed"
               /\ UNCHANGED last_status
    /\ from_server' = [from_server EXCEPT ![ClientConn] = Tail(@)]
    /\ UNCHANGED <<to_server, generated, workflow, status_calls, submitted_before,
                   ops_error>>
    /\ ClientFrame

(***************************************************************************)
(* The local cluster as a whole.                                           *)
(***************************************************************************)
\* the state in which Cluster.start has started the server's thread and
\* connected the first n workers and, if client holds, a client has connected
\* and submitted the tasks of the workflow wf, when the server has handled
\* none of their messages yet
LocalStateFrom(wf, n, client) ==
    /\ tasks = <<>>
    /\ task_states = <<>>
    /\ pending_tasks = {}
    /\ joined_workers = <<>>
    /\ used_workers = <<>>
    /\ shutdown_requested = FALSE
    /\ conns = (IF client THEN {ClientConn} ELSE {}) \cup 1..n
    /\ server_pc = "loop"
    /\ to_server = [c \in Conns |->
                      IF c = ClientConn
                      THEN [t \in DOMAIN wf |-> SubmitTaskMsg(t, wf[t])]
                      ELSE IF c <= n THEN <<JoinWorkerMsg(c)>> ELSE <<>>]
    /\ from_server = [c \in Conns |-> <<>>]
    /\ worker_pc = [w \in Workers |-> IF w <= n THEN "recv" ELSE "new"]
    /\ worker_task = [w \in Workers |-> None]
    /\ worker_shutdown = [w \in Workers |-> FALSE]
    /\ cluster_pc = IF n = NumWorkers THEN "wait" ELSE "connect"
    /\ cluster_shutdown = FALSE
    /\ connected = n
    /\ iter_pos = 0
    /\ iter_size = 0
    /\ client_pc = IF client THEN "ready" ELSE "new"
    /\ ops_error = "none"
    /\ generated = Cardinality(DOMAIN wf)
    /\ workflow = wf
    /\ status_calls = 0
    /\ submitted_before = {}
    /\ last_status = <<>>
    /\ run_sent = [t \in TaskIds |-> 0]
    /\ pass_view = [states |-> <<>>, pending |-> {}]

LocalState(wf, n) == LocalStateFrom(wf, n, TRUE)

\* the state once Cluster.start has started the server's thread and a client
\* has connected
InitLocal == LocalState(<<>>, 0)

\* no file at a path
NoFile == [exists |-> FALSE, content |-> <<>>]

\* no exception
NoError == [type |-> "none", text |-> ""]

\* no operation of the backend has been called
NoOp == [op |-> "none", target |-> ""]

\* no script has been generated
NoScript == [by |-> "none", lines |-> <<>>, raised |-> "none"]

\* nothing has been called on the backend, and no temporary file is left
SlurmFresh ==
    /\ target_options = <<>>
    /\ script = NoScript
    /\ tmp_file = NoFile
    /\ tool_calls = <<>>
    /\ slurm_error = NoError
    /\ slurm_op = NoOp

\* the Slurm backend before anything has run
SlurmIdle ==
    /\ squeue_out = <<>>
    /\ db_file = [exists |-> FALSE, content |-> <<>>]
    /\ job_db = <<>>
    /\ live_job_states = <<>>
    /\ slurm_pc = "idle"
    /\ SlurmFresh

Init == InitLocal /\ SlurmIdle

(***************************************************************************)
(* The dependency ids a submission may name: any of the ids generated just *)
(* before and just after its own.  This gives chains, tasks with two       *)
(* dependencies, dependencies submitted after their dependents, and        *)
(* cycles.                                                                 *)
(***************************************************************************)
DepChoices(t) == SUBSET ({t - 1, t + 1} \cap TaskIds)

\* the tasks reached from the tasks of S along dependencies, in at most n steps
RECURSIVE Reached(_, _, _)
Reached(wf, S, n) ==
    IF n = 0 THEN S
    ELSE Reached(wf, S \cup UNION {wf[d] : d \in S \cap DOMAIN wf}, n - 1)

\* no task of the workflow depends on itself through a chain of dependencies
Acyclic(wf) == \A t \in DOMAIN wf : t \notin Reached(wf, wf[t], MaxTasks)

ClientSubmitAny == \E deps \in DepChoices(generated + 1) : ClientSubmit(deps)

\* the workflows of MaxTasks tasks without a cycle
AcyclicWorkflows ==
    {wf \in [TaskIds -> SUBSET TaskIds] :
        (\A t \in TaskIds : wf[t] \in DepChoices(t)) /\ Acyclic(wf)}

(***************************************************************************)
(* Spec: tasks are submitted, workers join, tasks run and end.             *)
(***************************************************************************)
Next ==
    \/ ClientSubmitAny
    \/ ClusterConnectWorker
    \/ \E c \in Conns : handle_join_worker(c)
    \/ \E c \in Conns : handle_update_task_state(c)
    \/ \E c \in Conns : handle_submit_task(c)
    \/ \E w \in Workers : WorkerRunTask(w)
    \/ \E w \in Workers, rc \in ExitCodes : WorkerFinishTask(w, rc)

Spec == Init /\ [][Next]_vars

(***************************************************************************)
(* Properties of the scheduling core, checked under Spec.                  *)
(***************************************************************************)
\* the tasks for which the step sends a run_task message
Dispatched == {t \in TaskIds : run_sent'[t] > run_sent[t]}

\* C1: a run_task message for a task is sent only when every dependency of
\* the task has the recorded state COMPLETED, and so never while one of them
\* is FAILED or has no state yet
DispatchOnlyAfterDependencies ==
    [][\A t \in Dispatched :
          \A d \in tasks'[t] :
              /\ d \in DOMAIN task_states'
              /\ task_states'[d] = COMPLETED
              /\ task_states'[d] # FAILED]_vars

\* C1 witness: task 1 was submitted before its dependency, task 2, and has
\* been dispatched
DependentSubmittedFirstDispatched ==
    /\ 1 \in DOMAIN tasks
    /\ 2 \in tasks[1]
    /\ run_sent[1] = 1

\* C2: the assignment table is injective
UsedWorkersInjective ==
    \A t1, t2 \in DOMAIN used_workers :
        used_workers[t1] = used_workers[t2] => t1 = t2

\* the joined workers that are free when the pass of the step begins: a
\* handler removes at most the entry of the reported task before the pass,
\* and the pass only adds entries
FreeAtPassStart ==
    JoinedIds(joined_workers')
        \ {used_workers[t] : t \in DOMAIN used_workers \cap DOMAIN used_workers'}

\* C3: one pass sends at most one run_task message per worker that was free
\* when it began
PassSendsAtMostOnePerFreeWorker ==
    [][Cardinality(Dispatched) <= Cardinality(FreeAtPassStart)]_vars

\* C4: a pending task that a pass finds with a FAILED dependency is FAILED
\* and no longer pending after the pass, without a run_task message for it;
\* and a task failed without having been dispatched is never dispatched
CascadeFailsWithoutDispatch ==
    /\ [](\A t \in pass_view.pending :
            (\E d \in tasks[t] : d \in DOMAIN pass_view.states
                                 /\ pass_view.states[d] = FAILED)
            => /\ task_states[t] = FAILED
               /\ t \notin pending_tasks
               /\ run_sent[t] = 0)
    /\ [][\A t \in DOMAIN task_states :
            task_states[t] = FAILED /\ run_sent[t] = 0
            => task_states'[t] = FAILED /\ run_sent'[t] = 0]_vars

\* C4 witness: task 2 depends on tasks 1 and 3, task 1 ran and failed, task 3
\* has not ended, and task 2 is FAILED without having been dispatched
CascadeFailedWithOneFailedDep ==
    /\ 2 \in DOMAIN tasks
    /\ tasks[2] = {1, 3}
    /\ StateOf(task_states, 1) = FAILED
    /\ run_sent[1] = 1
    /\ StateOf(task_states, 3) \in {SUBMITTED, RUNNING}
    /\ task_states[2] = FAILED
    /\ run_sent[2] = 0

\* C5: when the server has handled the update that reports a task FAILED,
\* every submitted task that depends on it through a chain of dependencies is
\* FAILED and not pending
FailurePropagatesTransitively ==
    [][\A a \in DOMAIN task_states :
          (task_states[a] # FAILED /\ task_states'[a] = FAILED /\ run_sent[a] > 0)
          => \A t \in DOMAIN tasks' :
                a \in Reached(tasks', tasks'[t], MaxTasks)
                => task_states'[t] = FAILED /\ t \notin pending_tasks']_vars

\* the order of the states of a task
Rank(st) == CASE st = SUBMITTED -> 1
              [] st = RUNNING -> 2
              [] st \in {FAILED, COMPLETED} -> 3
              [] OTHER -> 0

\* C6: the recorded state of a task never moves back: a FAILED or COMPLETED
\* task keeps its state, and a RUNNING task is never SUBMITTED again
TaskStateMovesForward ==
    [][\A t \in DOMAIN task_states :
          /\ t \in DOMAIN task_states'
          /\ Rank(task_states'[t]) >= Rank(task_states[t])
          /\ task_states[t] \in {FAILED, COMPLETED} => task_states'[t] = task_states[t]]_vars

\* C6 witness: the server goes on handling updates while task 1 is COMPLETED
\* and task 2 is FAILED
TerminalStatesWhileOthersRun ==
    /\ StateOf(task_states, 1) = COMPLETED
    /\ StateOf(task_states, 2) = FAILED
    /\ StateOf(task_states, 3) = RUNNING

(***************************************************************************)
(* SpecLive: a client has submitted the tasks of an acyclic workflow and   *)
(* the cluster has connected its workers (a state of Spec; the sends of    *)
(* the client and of the cluster wait for nothing, so the server can find  *)
(* all of them done before it handles the first).  Nobody requests a       *)
(* shutdown and every subprocess exits with code 0.  A thread that can     *)
(* take a step eventually takes one, and every message sent is eventually  *)
(* received.                                                               *)
(***************************************************************************)
InitLive ==
    /\ \E wf \in AcyclicWorkflows : LocalState(wf, NumWorkers)
    /\ SlurmIdle

NextLive ==
    \/ \E c \in Conns : handle_join_worker(c)
    \/ \E c \in Conns : handle_update_task_state(c)
    \/ \E c \in Conns : handle_submit_task(c)
    \/ \E w \in Workers : WorkerRunTask(w)
    \/ \E w \in Workers : WorkerFinishTask(w, 0)

SpecLive == InitLive /\ [][NextLive]_vars /\ WF_vars(NextLive)

\* C7: when the tasks of an acyclic workflow have been submitted and every
\* subprocess exits with code 0, every task eventually is COMPLETED and
\* stays COMPLETED
AllTasksEventuallyCompleted ==
    <>[](\A t \in TaskIds : StateOf(task_states, t) = COMPLETED)

\* C7 witness: every task is COMPLETED in a workflow where task 2 depends on
\* task 1 and on task 3, which was submitted after it
AllCompletedWithDependencies ==
    /\ \A t \in TaskIds : StateOf(task_states, t) = COMPLETED
    /\ tasks[2] = {1, 3}

(***************************************************************************)
(* SpecStatus: a client that submits tasks and calls status() while the    *)
(* server and one connected worker run the tasks.                          *)
(***************************************************************************)
\* the first worker has connected and sent its join_worker message
InitStatus == LocalState(<<>>, 1) /\ SlurmIdle

NextStatus ==
    \/ ClientSubmitAny
    \/ \E c \in Conns : handle_join_worker(c)
    \/ \E c \in Conns : handle_update_task_state(c)
    \/ \E c \in Conns : handle_submit_task(c)
    \/ \E w \in Workers : WorkerRunTask(w)
    \/ \E w \in Workers, rc \in ExitCodes : WorkerFinishTask(w, rc)
    \/ ClientStatusCall
    \/ \E c \in Conns : handle_get_task_states(c)
    \/ ClientStatusReturn

SpecStatus == InitStatus /\ [][NextStatus]_vars

\* the task_states message the step sends to the client, if it sends one
ReplySent ==
    /\ Len(from_server'[ClientConn]) = Len(from_server[ClientConn]) + 1
    /\ from_server'[ClientConn][Len(from_server'[ClientConn])].type = "task_states"

\* C8: a task_states reply names exactly the tasks whose submit_task message
\* the server has handled, each with the state recorded for it; and what
\* status() returns has an entry for every task id that submit() returned
\* before status() was called
StatusReflectsProcessedSubmits ==
    /\ [][ReplySent =>
            LET reply == from_server'[ClientConn][Len(from_server'[ClientConn])].tasks
            IN /\ DOMAIN reply = DOMAIN tasks
               /\ \A t \in DOMAIN reply :
                     /\ t \in DOMAIN task_states
                     /\ reply[t] = StatusName(task_states[t])]_vars
    /\ [][client_pc = "status_wait" /\ client_pc' = "ready"
            => submitted_before \subseteq DOMAIN last_status']_vars

\* C8 witness: status() has returned after two submits, with a state for each
\* of the two tasks, one of them COMPLETED
StatusReturnedAfterSubmits ==
    /\ client_pc = "ready"
    /\ status_calls = 1
    /\ submitted_before = {1, 2}
    /\ DOMAIN last_status = {1, 2}
    /\ last_status[1] = COMPLETED


(***************************************************************************)
(* SpecCluster: the whole local cluster, from Cluster.start to its return, *)
(* with Cluster.shutdown called at any moment.  Every thread that can take *)
(* a step eventually takes one: the server's event loop, each worker and   *)
(* Cluster.start.  Cluster.shutdown is called from outside, and the client *)
(* submits when it likes: neither is forced.                               *)
(***************************************************************************)
\* one turn of the event loop of Server.start, or its end
ServerStep ==
    \/ \E c \in Conns : handle_join_worker(c)
    \/ \E c \in Conns : handle_leave_worker(c)
    \/ \E c \in Conns : handle_update_task_state(c)
    \/ \E c \in Conns : handle_submit_task(c)
    \/ \E c \in Conns : handle_close(c)
    \/ ServerExit

\* a step of the thread of worker w
WorkerStep(w) ==
    \/ WorkerRunTask(w)
    \/ \E rc \in ExitCodes : WorkerFinishTask(w, rc)
    \/ WorkerShutdown(w)

\* a step of Cluster.start
ClusterStep ==
    \/ ClusterConnectWorker
    \/ ServerShutdownBegin
    \/ ServerShutdownNext
    \/ ServerShutdownSetFlag
    \/ ClusterJoin

NextCluster ==
    \/ ClientSubmitAny
    \/ ClusterShutdown
    \/ ServerStep
    \/ \E w \in Workers : WorkerStep(w)
    \/ ClusterStep

FairCluster ==
    /\ WF_vars(ServerStep)
    /\ \A w \in Workers : WF_vars(WorkerStep(w))
    /\ WF_vars(ClusterStep)

SpecCluster == Init /\ [][NextCluster]_vars /\ FairCluster

\* C9: once Cluster.shutdown has been called, eventually every worker has
\* received shutdown, sent leave_worker and ended, the server's event loop
\* has ended, and Cluster.start has returned
ShutdownReachesEveryWorker ==
    cluster_shutdown ~>
        /\ \A w \in Workers : worker_pc[w] = "done"
        /\ server_pc = "exited"
        /\ cluster_pc = "returned"

(***************************************************************************)
(* The Slurm backend.  One invocation of gwf: configure() reads the job    *)
(* database file and the listing of squeue.                                *)
(***************************************************************************)
\* the most lines a listing of squeue has
MaxLines == 2

\* see squeue man page under JOB STATE CODES
JOB_STATE_CODES ==
    "BF" :> "?" @@ "CA" :> "?" @@ "CD" :> "?" @@ "CF" :> "R" @@ "CG" :> "R" @@
    "F" :> "?" @@ "NF" :> "?" @@ "PD" :> "Q" @@ "PR" :> "?" @@ "R" :> "R" @@
    "S" :> "R" @@ "TO" :> "?" @@ "SE" :> "Q"

\* the targets of the workflow, the job ids sbatch has given out, and the
\* state codes and dependency fields the listings are drawn from
TargetNames == {"A", "B"}
JobIds == {"101", "102"}
ListedCodes == {"PD", "R", "CD"}
ListedDepends == {"", "101"}

\* a line of squeue --noheader --format=%i;%t;%E, already split at ';'
SqueueLines == JobIds \X ListedCodes \X ListedDepends

SqueueOutputs == UNION {[1..n -> SqueueLines] : n \in 0..MaxLines}

\* .gwf/slurm-backend-jobdb.json: absent, or a JSON object from target names
\* to job ids
DbFiles ==
    {[exists |-> FALSE, content |-> <<>>]}
    \cup {[exists |-> TRUE, content |-> f] :
            f \in UNION {[S -> JobIds] : S \in SUBSET TargetNames}}

\* _read_job_db: the object in the file, {} when there is no file
read_job_db(file) == IF file.exists THEN file.content ELSE <<>>

\* the loop body without the test of the dependency field
SimpleStateNoHold(state, depends) == JOB_STATE_CODES[state]

\* the body of the for loop of _live_job_states, for one line
SimpleState(state, depends) ==
    LET simple_state == JOB_STATE_CODES[state]
    IN IF simple_state = "Q" /\ depends # "" THEN "H" ELSE simple_state

\* the for loop of _live_job_states over the first n lines
RECURSIVE LiveJobStates(_, _)
LiveJobStates(out, n) ==
    IF n = 0 THEN <<>>
    ELSE Put(LiveJobStates(out, n - 1), out[n][1], SimpleState(out[n][2], out[n][3]))

\* the dict comprehension at the end of configure
FilterJobDb(db, live) ==
    [target_name \in {t \in DOMAIN db : db[t] \in DOMAIN live} |-> live[db[target_name]]]

\* SlurmBackend.configure.  The pipe of squeue yields bytes or text lines
\* according to the interpreter; split(';') of a bytes line raises TypeError
\* and configure ends there.
SlurmConfigure ==
    /\ slurm_pc = "idle"
    /\ \E text \in BOOLEAN :
          IF ~text /\ squeue_out # <<>>
          THEN /\ job_db' = read_job_db(db_file)
               /\ slurm_pc' = "raised"
               /\ slurm_error' = [type |-> "TypeError", text |-> ""]
               /\ UNCHANGED live_job_states
          ELSE LET live == LiveJobStates(squeue_out, Len(squeue_out))
               IN /\ live_job_states' = live
                  /\ job_db' = FilterJobDb(read_job_db(db_file), live)
                  /\ slurm_pc' = "configured"
                  /\ slurm_error' = NoError
    /\ tool_calls' = <<>>
    /\ slurm_op' = [op |-> "configure", target |-> ""]
    /\ UNCHANGED <<squeue_out, db_file, tmp_file, scriptVars, localVars>>

\* an invocation of gwf begins: some job database file, some answer of squeue
InitSlurm ==
    /\ InitLocal
    /\ db_file \in DbFiles
    /\ squeue_out \in SqueueOutputs
    /\ job_db = <<>>
    /\ live_job_states = <<>>
    /\ slurm_pc = "idle"
    /\ SlurmFresh

NextSlurm == SlurmConfigure

SpecSlurm == InitSlurm /\ [][NextSlurm]_vars

\* C10: after configure(), every entry of the job database maps its target
\* to a job id that is a key of the snapshot of live job states, and a
\* persisted entry is kept exactly when its job id is in the snapshot
ConfigureKeepsLiveJobIds ==
    slurm_pc = "configured" =>
        LET db == read_job_db(db_file)
        IN /\ \A t \in DOMAIN job_db : job_db[t] \in DOMAIN live_job_states
           /\ \A t \in DOMAIN db :
                 t \in DOMAIN job_db <=> db[t] \in DOMAIN live_job_states

(***************************************************************************)
(* The operations of the Slurm backend after configure(), close() step by  *)
(* step, and the next invocation of gwf.                                   *)
(***************************************************************************)
\* self.workflow.dependencies: target B depends on target A
TargetDeps == "A" :> {} @@ "B" :> {"A"}

\* what a run of sbatch --parsable ends with: the new job id on stdout and exit
\* code 0, or a message on stderr and exit code 1
SbatchOutcomes ==
    {[returncode |-> 0, stdout |-> "103\n", stderr |-> ""],
     [returncode |-> 1, stdout |-> "", stderr |-> "sbatch: error: invalid account"]}

\* the value communicate() gives for a stream that was not opened as a pipe
NotCaptured == "None"

\* proc.communicate(script_contents) of a process started by Popen(cmd): neither
\* stdout nor stderr is a pipe, so both members of the pair are None, whatever
\* the tool printed
communicate(stdout, stderr) == <<NotCaptured, NotCaptured>>

\* str.strip
strip(text) == IF text = "103\n" THEN "103" ELSE text

\* SlurmBackend.submitted
submitted(db, target) == target \in DOMAIN db

\* SlurmBackend.running: self._live_job_states.get(self._job_db.get(name, None), '?') == 'R'
running(db, live, target) ==
    /\ target \in DOMAIN db
    /\ db[target] \in DOMAIN live
    /\ live[db[target]] = "R"

\* the job ids of the dependencies of target that are in the job database
DependencyIds(db, target) == {db[dep] : dep \in TargetDeps[target] \cap DOMAIN db}

SlurmFrame == UNCHANGED <<squeue_out, scriptVars, localVars>>

\* SlurmBackend.submit
SlurmSubmit(target, outcome) ==
    /\ slurm_pc = "configured"
    /\ slurm_op' = [op |-> "submit", target |-> target]
    /\ tool_calls' = <<[tool |-> "sbatch", args |-> DependencyIds(job_db, target),
                        returncode |-> outcome.returncode,
                        stdout |-> outcome.stdout, stderr |-> outcome.stderr]>>
    /\ LET captured == communicate(outcome.stdout, outcome.stderr)
           new_job_id == captured[1]
           error_text == captured[2]
       IN IF outcome.returncode # 0
          THEN /\ slurm_error' = [type |-> "BackendError", text |-> error_text]
               /\ UNCHANGED <<job_db, live_job_states>>
          ELSE IF new_job_id = NotCaptured
          THEN \* None has no attribute strip
               /\ slurm_error' = [type |-> "AttributeError", text |-> ""]
               /\ UNCHANGED <<job_db, live_job_states>>
          ELSE /\ slurm_error' = NoError
               /\ job_db' = Put(job_db, target, strip(new_job_id))
               /\ live_job_states' = Put(live_job_states, strip(new_job_id), "H")
    /\ UNCHANGED <<db_file, tmp_file, slurm_pc>>
    /\ SlurmFrame

\* the job id cancel looks up: self._job_db.get(target.name, '?')
CancelJobId(db, target) == IF target \in DOMAIN db THEN db[target] ELSE "?"

\* the scancel runs of one call of cancel
CancelCallsAlways(db, live, target) ==
    <<[tool |-> "scancel", args |-> {CancelJobId(db, target)},
       returncode |-> 0, stdout |-> "", stderr |-> ""]>>

CancelCalls(db, live, target) ==
    IF CancelJobId(db, target) \in DOMAIN live
    THEN <<[tool |-> "scancel", args |-> {CancelJobId(db, target)},
            returncode |-> 0, stdout |-> "", stderr |-> ""]>>
    ELSE <<>>

\* SlurmBackend.cancel
SlurmCancel(target) ==
    /\ slurm_pc = "configured"
    /\ slurm_op' = [op |-> "cancel", target |-> target]
    /\ tool_calls' = CancelCalls(job_db, live_job_states, target)
    /\ slurm_error' = NoError
    /\ UNCHANGED <<db_file, tmp_file, job_db, live_job_states, slurm_pc>>
    /\ SlurmFrame

\* the file dump_atomic opens for writing: an empty file at path + '.new'.
\* The pair is the file at the final path and the file at the temporary path.
DumpOpenInPlace(final, tmp) ==
    <<[exists |-> TRUE, content |-> <<>>],
      [exists |-> TRUE, content |-> <<>>, complete |-> FALSE]>>

DumpOpen(final, tmp) ==
    <<final, [exists |-> TRUE, content |-> <<>>, complete |-> FALSE]>>

\* SlurmBackend.close, up to open(path + '.new', 'w') in dump_atomic
SlurmClose ==
    /\ slurm_pc = "configured"
    /\ slurm_op' = [op |-> "close", target |-> ""]
    /\ tool_calls' = <<>>
    /\ slurm_error' = NoError
    /\ db_file' = DumpOpen(db_file, tmp_file)[1]
    /\ tmp_file' = DumpOpen(db_file, tmp_file)[2]
    /\ slurm_pc' = "dump_write"
    /\ UNCHANGED <<job_db, live_job_states>>
    /\ SlurmFrame

\* json.dump writes the text of one more entry to the temporary file, or has
\* written them all
DumpWrite ==
    /\ slurm_pc = "dump_write"
    /\ IF DOMAIN tmp_file.content = DOMAIN job_db
       THEN /\ slurm_pc' = "dump_sync"
            /\ UNCHANGED tmp_file
       ELSE /\ \E t \in DOMAIN job_db \ DOMAIN tmp_file.content :
                 tmp_file' = [tmp_file EXCEPT !.content = Put(@, t, job_db[t])]
            /\ UNCHANGED slurm_pc
    /\ UNCHANGED <<db_file, job_db, live_job_states, tool_calls, slurm_error, slurm_op>>
    /\ SlurmFrame

\* the closing brace, flush, fsync and close
DumpSync ==
    /\ slurm_pc = "dump_sync"
    /\ tmp_file' = [tmp_file EXCEPT !.complete = TRUE]
    /\ slurm_pc' = "dump_rename"
    /\ UNCHANGED <<db_file, job_db, live_job_states, tool_calls, slurm_error, slurm_op>>
    /\ SlurmFrame

\* os.rename(path + '.new', path)
DumpRename ==
    /\ slurm_pc = "dump_rename"
    /\ db_file' = [exists |-> TRUE, content |-> tmp_file.content]
    /\ tmp_file' = NoFile
    /\ slurm_pc' = "closed"
    /\ UNCHANGED <<job_db, live_job_states, tool_calls, slurm_error, slurm_op>>
    /\ SlurmFrame

\* the process stops in the middle of dump_atomic
SlurmCrash ==
    /\ slurm_pc \in {"dump_write", "dump_sync", "dump_rename"}
    /\ slurm_pc' = "crashed"
    /\ UNCHANGED <<db_file, tmp_file, job_db, live_job_states, tool_calls,
                   slurm_error, slurm_op>>
    /\ SlurmFrame

\* what squeue lists at the next invocation: the jobs it listed before, less
\* the oldest ones, which have ended in the meantime
Relisted(out) == {SubSeq(out, k, Len(out)) : k \in 1..(Len(out) + 1)}

\* gwf is invoked again: a new backend object, the files as they were left,
\* and what squeue lists now
SlurmRestart ==
    /\ slurm_pc \in {"closed", "crashed", "raised"}
    /\ squeue_out' \in Relisted(squeue_out)
    /\ job_db' = <<>>
    /\ live_job_states' = <<>>
    /\ slurm_pc' = "idle"
    /\ tool_calls' = <<>>
    /\ slurm_error' = NoError
    /\ slurm_op' = NoOp
    /\ UNCHANGED <<db_file, tmp_file, scriptVars, localVars>>

NextSlurmRun ==
    \/ SlurmConfigure
    \/ \E target \in TargetNames, outcome \in SbatchOutcomes : SlurmSubmit(target, outcome)
    \/ \E target \in TargetNames : SlurmCancel(target)
    \/ SlurmClose
    \/ DumpWrite
    \/ DumpSync
    \/ DumpRename
    \/ SlurmCrash
    \/ SlurmRestart

SpecSlurmRun == InitSlurm /\ [][NextSlurmRun]_vars

\* a step that is a call of submit
SubmitStep == slurm_pc = "configured" /\ slurm_op'.op = "submit"

\* a step that is a call of cancel
CancelStep == slurm_pc = "configured" /\ slurm_op'.op = "cancel"

\* C11: after configure(), a target the persisted job database names, whose
\* job the scheduler lists, is still mapped to the same job id, counts as
\* submitted, and counts as running exactly when the snapshot says R
TrackingSurvivesRestart ==
    slurm_pc = "configured" =>
        LET db == read_job_db(db_file)
        IN \A t \in DOMAIN db :
              db[t] \in DOMAIN live_job_states =>
                 /\ submitted(job_db, t)
                 /\ job_db[t] = db[t]
                 /\ running(job_db, live_job_states, t)
                       <=> live_job_states[db[t]] = "R"

\* C12: a submit whose sbatch run exits with code 0 records the trimmed job id
\* for the target, marks that id H in the live states, and leaves the entries
\* of the other targets alone; the target is then submitted and not running
SubmitRecordsJob ==
    [][SubmitStep /\ tool_calls'[1].returncode = 0 =>
          LET target == slurm_op'.target
              new_job_id == strip(tool_calls'[1].stdout)
          IN /\ job_db' = Put(job_db, target, new_job_id)
             /\ live_job_states' = Put(live_job_states, new_job_id, "H")
             /\ submitted(job_db', target)
             /\ ~running(job_db', live_job_states', target)]_vars

\* C13: a submit whose sbatch run exits with a code other than 0 raises
\* BackendError with the text sbatch wrote, has run sbatch once, and has left
\* the job database and the live states as they were
FailedSubmitCarriesErrorText ==
    [][SubmitStep /\ tool_calls'[1].returncode # 0 =>
          /\ slurm_error'.type = "BackendError"
          /\ slurm_error'.text = tool_calls'[1].stderr
          /\ Len(tool_calls') = 1
          /\ job_db' = job_db
          /\ live_job_states' = live_job_states]_vars

\* C14: cancel runs scancel only if the job id recorded for the target is a
\* key of the live states; for a target with no entry, or with an entry that
\* is no key of the live states, it runs nothing; it raises nothing and
\* changes neither table
CancelOnlyLiveJobs ==
    [][CancelStep =>
          LET target == slurm_op'.target
              listed == /\ target \in DOMAIN job_db
                        /\ job_db[target] \in DOMAIN live_job_states
          IN /\ tool_calls' # <<>> => listed
             /\ ~listed => tool_calls' = <<>>
             /\ \A i \in DOMAIN tool_calls' : tool_calls'[i].tool = "scancel"
             /\ slurm_error' = NoError
             /\ job_db' = job_db
             /\ live_job_states' = live_job_states]_vars

\* C14 witness: cancel has been called for a target whose recorded job is no
\* key of the live states, and for one with no entry, while squeue lists jobs
CancelledUnlistedTarget ==
    /\ slurm_op.op = "cancel"
    /\ slurm_op.target \in DOMAIN job_db
    /\ DOMAIN job_db # TargetNames
    /\ live_job_states # <<>>
    /\ tool_calls = <<>>
    /\ slurm_error = NoError

\* C15: the file at the final path changes only by the rename, and then to
\* the complete new job database: through every other step of dump_atomic,
\* and when the process stops at any of them, it is the file it was
DumpIsCrashAtomic ==
    [][db_file' # db_file =>
          /\ slurm_pc = "dump_rename"
          /\ slurm_pc' = "closed"
          /\ tmp_file.complete
          /\ db_file' = [exists |-> TRUE, content |-> job_db]]_vars

\* C15 witness: the process stopped with one of two entries written to the
\* temporary file, and the final path holds a database that differs from the
\* new one
CrashedWithPartialTemporaryFile ==
    /\ slurm_pc = "crashed"
    /\ tmp_file.exists
    /\ ~tmp_file.complete
    /\ DOMAIN tmp_file.content # {}
    /\ DOMAIN tmp_file.content # DOMAIN job_db
    /\ db_file.exists
    /\ db_file.content # job_db

(***************************************************************************)
(* SpecOps: Spec, from before the local backend has made its client.       *)
(***************************************************************************)
\* how sock.connect((hostname, port)) of Connection.connect ends: connected,
\* or one of the exceptions it raises (nothing listens at the port; the host
\* name does not resolve; the host does not answer)
ConnectOutcomes == {"connected", "ConnectionRefusedError", "gaierror", "TimeoutError"}

\* the exception that leaves LocalOps._create_client when Client.connect
\* raises exc
CreateClientError(exc) == IF exc = "ConnectionRefusedError" THEN "BackendError" ELSE exc

\* LocalOps._create_client
LocalOpsCreateClient(outcome) ==
    /\ client_pc = "new"
    /\ IF outcome = "connected"
       THEN /\ conns' = conns \cup {ClientConn}
            /\ client_pc' = "ready"
            /\ UNCHANGED ops_error
       ELSE /\ ops_error' = CreateClientError(outcome)
            /\ client_pc' = "failed"
            /\ UNCHANGED conns
    /\ UNCHANGED <<tasks, task_states, pending_tasks, joined_workers, used_workers,
                   shutdown_requested, server_pc, chanVars, workerVars, clusterVars,
                   generated, workflow, status_calls, submitted_before, last_status,
                   obsVars, slurmVars>>

InitOps == LocalStateFrom(<<>>, 0, FALSE) /\ SlurmIdle

NextOps ==
    \/ \E outcome \in ConnectOutcomes : LocalOpsCreateClient(outcome)
    \/ Next

SpecOps == InitOps /\ [][NextOps]_vars

\* C16: whatever keeps the client from connecting, the construction of
\* LocalOps raises BackendError and no other exception
OnlyBackendErrorLeavesLocalOps ==
    ops_error \in {"none", "BackendError"}

(***************************************************************************)
(* SpecStop: the cluster is started and shut down while it works on a      *)
(* workflow that was submitted before: a chain of MaxTasks tasks, each     *)
(* depending on the task submitted just before it, or each on the task     *)
(* submitted just after it.                                                *)
(***************************************************************************)
ChainWorkflows ==
    {[t \in TaskIds |-> {t - 1} \cap TaskIds], [t \in TaskIds |-> {t + 1} \cap TaskIds]}

InitStop == (\E wf \in ChainWorkflows : LocalState(wf, 0)) /\ SlurmIdle

NextStop ==
    \/ ClusterShutdown
    \/ ClusterStep
    \/ ServerStep
    \/ \E w \in Workers : WorkerStep(w)

SpecStop == InitStop /\ [][NextStop]_vars

\* the messages of the given type in a queue
Pending(queue, type) == {i \in DOMAIN queue : queue[i].type = type}

\* C17: the loop of Server.start ends only when shutdown has been requested
\* and no worker is joined; and once it has ended, no worker has a shutdown
\* message still to read and no leave_worker message is left unhandled
LoopExitsOnlyWhenDrained ==
    /\ [][server_pc = "loop" /\ server_pc' # "loop" =>
             /\ server_pc' = "exited"
             /\ shutdown_requested
             /\ JoinedIds(joined_workers) = {}]_vars
    /\ [](server_pc = "exited" =>
             \A w \in Workers :
                /\ Pending(from_server[w], "shutdown") = {}
                /\ Pending(to_server[w], "leave_worker") = {})

\* C17 witness: the loop has ended after a worker was told to shut down while
\* it ran a task, and its leave_worker message has been handled
LoopExitedAfterWorkerLeft ==
    /\ server_pc = "exited"
    /\ \A w \in Workers : worker_pc[w] = "done"
    /\ \E t \in DOMAIN task_states : task_states[t] \in {FAILED, COMPLETED}

\* the message a worker sent last
LastSent(w) == to_server'[w][Len(to_server'[w])]

\* a step in which worker w ends the task it runs
EndsTask(w) == worker_pc[w] = "running" /\ worker_pc'[w] # "running"

\* C18: a worker that ends its task while a shutdown message for it waits
\* unread has been interrupted by it and reports the task FAILED
InterruptedTaskReportedFailed ==
    [][\A w \in Workers :
          EndsTask(w) /\ Pending(from_server[w], "shutdown") # {} =>
             LastSent(w) = UpdateTaskStateMsg(worker_task[w], FAILED)]_vars

\* C19: Cluster.start, which runs Server.shutdown, changes neither a table
\* of the server nor its shutdown flag, and no handler changes the table of
\* joined workers while Server.shutdown iterates over it
ServerStateTouchedByLoopThreadOnly ==
    /\ [][cluster_pc' # cluster_pc =>
             UNCHANGED <<tasks, task_states, pending_tasks, joined_workers,
                         used_workers, shutdown_requested>>]_vars
    /\ [][joined_workers' # joined_workers => cluster_pc # "iterate"]_vars

(***************************************************************************)
(* SpecWork: Spec, with tasks whose subprocess cannot be set up.           *)
(***************************************************************************)
\* open() of an output path or Popen raises in run_task, after RUNNING has
\* been reported: the except branch reports FAILED
WorkerSetupRaises(w) ==
    /\ worker_pc[w] = "running"
    /\ to_server' = Send(to_server, w, UpdateTaskStateMsg(worker_task[w], FAILED))
    /\ worker_task' = [worker_task EXCEPT ![w] = None]
    /\ worker_pc' = [worker_pc EXCEPT ![w] = "recv"]
    /\ UNCHANGED <<from_server, worker_shutdown>>
    /\ WorkerFrame

NextWork ==
    \/ Next
    \/ \E w \in Workers : WorkerSetupRaises(w)

SpecWork == Init /\ [][NextWork]_vars

\* C20: a worker that handles run_task reports RUNNING for the task at once;
\* it ends the task with one more report, FAILED when the setup raised or the
\* exit code is not 0 and COMPLETED when the exit code is 0, and is then back
\* in its receive loop; it sends nothing else
WorkerReportsRunningThenOutcome ==
    [][\A w \in Workers :
          /\ worker_pc[w] = "recv" /\ worker_pc'[w] # "recv" =>
                /\ worker_pc'[w] = "running"
                /\ worker_task'[w] = Head(from_server[w]).task_id
                /\ to_server'[w] = Append(to_server[w],
                                          UpdateTaskStateMsg(worker_task'[w], RUNNING))
          /\ EndsTask(w) =>
                /\ worker_pc'[w] = "recv"
                /\ Len(to_server'[w]) = Len(to_server[w]) + 1
                /\ LastSent(w).type = "update_task_state"
                /\ LastSent(w).task_id = worker_task[w]
          /\ \A rc \in ExitCodes :
                WorkerFinishTask(w, rc) =>
                   LastSent(w).new_state = StatusName(IF rc = 0 THEN COMPLETED ELSE FAILED)
          /\ WorkerSetupRaises(w) => LastSent(w).new_state = StatusName(FAILED)
          /\ worker_pc'[w] = worker_pc[w] /\ worker_pc[w] # "new" =>
                Len(to_server'[w]) <= Len(to_server[w])]_vars

\* C20 witness: a worker that has reported a task FAILED runs its next task
WorkerRunsNextTaskAfterFailure ==
    \E w \in Workers, t \in DOMAIN task_states :
       /\ task_states[t] = FAILED
       /\ run_sent[t] = 1
       /\ worker_pc[w] = "running"
       /\ worker_task[w] # t
       /\ run_sent[worker_task[w]] = 1

\* the positions of a queue at which a message of the first type comes before
\* one of the second
OutOfOrder(queue, first, second) ==
    {<<i, j>> \in (DOMAIN queue) \X (DOMAIN queue) :
        i < j /\ queue[i].type = first /\ queue[j].type = second}

\* C21: a worker ends only by handling a shutdown message, when it runs no
\* task; it then sends leave_worker with its own id and close, in that order,
\* and reads and sends nothing more; leave_worker is sent in no other step,
\* and no report of a task follows it
WorkerLeavesOnlyOnShutdown ==
    /\ [][\A w \in Workers :
             /\ worker_pc[w] # "done" /\ worker_pc'[w] = "done" =>
                   /\ worker_pc[w] = "recv"
                   /\ worker_task[w] = None
                   /\ from_server[w] # <<>>
                   /\ Head(from_server[w]).type = "shutdown"
                   /\ from_server'[w] = Tail(from_server[w])
                   /\ to_server'[w] = to_server[w] \o
                         <<[type |-> "leave_worker", worker_id |-> w], [type |-> "close"]>>
             /\ worker_pc[w] = "done" =>
                   /\ worker_pc'[w] = "done"
                   /\ Len(from_server'[w]) >= Len(from_server[w])
                   /\ Len(to_server'[w]) <= Len(to_server[w])
             /\ Cardinality(Pending(to_server'[w], "leave_worker"))
                   > Cardinality(Pending(to_server[w], "leave_worker")) =>
                   worker_pc[w] # "done" /\ worker_pc'[w] = "done"]_vars
    /\ [](\A w \in Workers :
             OutOfOrder(to_server[w], "leave_worker", "update_task_state") = {})

\* C21 witness: a worker has ended after it ran a task to its end, and its
\* leave_worker message waits behind the report of the task
WorkerLeftAfterItsReport ==
    \E w \in Workers :
       /\ worker_pc[w] = "done"
       /\ OutOfOrder(to_server[w], "update_task_state", "leave_worker") # {}

\* a step in which the server handles the leave_worker message at the head of
\* connection c
LeaveHandled(c) ==
    /\ Readable(c, "leave_worker")
    /\ to_server'[c] = Tail(to_server[c])

\* C22: handling leave_worker takes that worker, and nothing else, out of the
\* table of joined workers; the tasks, their states, the pending set and the
\* assignments stay as they are, and no run_task message is sent
LeaveWorkerOnlyDeregisters ==
    [][\A c \in Conns :
          LeaveHandled(c) =>
             /\ JoinedIds(joined_workers')
                   = JoinedIds(joined_workers) \ {Head(to_server[c]).worker_id}
             /\ UNCHANGED <<tasks, task_states, pending_tasks, used_workers,
                            from_server, run_sent>>]_vars

\* C22 witness: a worker has left, and a task assigned to it is still in the
\* assignment table, in a state that is not terminal
WorkerLeftHoldingTask ==
    \E t \in DOMAIN used_workers :
       /\ worker_pc[used_workers[t]] = "done"
       /\ used_workers[t] \notin JoinedIds(joined_workers)
       /\ Pending(to_server[used_workers[t]], "leave_worker") = {}
       /\ task_states[t] \in {SUBMITTED, RUNNING}

\* ---------------------------------------------------------------------
\* The state codes of squeue in the two Slurm backends

\* every code of the table of state codes
AllCodes == DOMAIN JOB_STATE_CODES

\* the lines squeue can print with a code of the table
AllSqueueLines == JobIds \X AllCodes \X ListedDepends

AllSqueueOutputs == UNION {[1..n -> AllSqueueLines] : n \in 0..MaxLines}

\* map_state of the older SlurmBackend.get_state_of_jobs
map_state ==
    "BF" :> "?" @@ "CA" :> "?" @@ "CD" :> "?" @@ "CF" :> "R" @@ "CG" :> "R" @@
    "F" :> "?" @@ "NF" :> "?" @@ "PD" :> "Q" @@ "PR" :> "?" @@ "R" :> "R" @@
    "S" :> "R" @@ "TO" :> "?" @@ "SE" :> "Q"

\* the body of the for loop of get_state_of_jobs, for one line
OldSimpleState(state, depends) ==
    LET simple_state == map_state[state]
    IN IF simple_state = "Q" /\ depends # "" THEN "H" ELSE simple_state

\* get_state_of_jobs(job_ids) over the first n lines: the result starts
\* with False for the ids asked for
RECURSIVE get_state_of_jobs(_, _, _)
get_state_of_jobs(out, n, job_ids) ==
    IF n = 0 THEN [job_id \in job_ids |-> "False"]
    ELSE Put(get_state_of_jobs(out, n - 1, job_ids), out[n][1],
             OldSimpleState(out[n][2], out[n][3]))

\* an invocation of gwf with no job database, squeue listing jobs in any
\* state of the table
InitCodes ==
    /\ InitLocal
    /\ db_file = [exists |-> FALSE, content |-> <<>>]
    /\ squeue_out \in AllSqueueOutputs
    /\ job_db = <<>>
    /\ live_job_states = <<>>
    /\ slurm_pc = "idle"
    /\ SlurmFresh

NextCodes == SlurmConfigure

SpecCodes == InitCodes /\ [][NextCodes]_vars

\* the line that decides the entry of job_id: the last one that names it
LastLineOf(out, job_id) ==
    out[CHOOSE i \in DOMAIN out :
            /\ out[i][1] = job_id
            /\ \A j \in DOMAIN out : out[j][1] = job_id => j <= i]

SnapshotValuesAreRHQ ==
    \A job_id \in DOMAIN live_job_states :
        live_job_states[job_id] \in {"R", "H", "Q"}

\* ---------------------------------------------------------------------
\* The submission script of a target

MaxOptions == 4

OPTION_TABLE ==
    "nodes" :> "-N " @@ "cores" :> "-c " @@ "memory" :> "--mem=" @@
    "walltime" :> "-t " @@ "queue" :> "-p " @@ "account" :> "-A " @@
    "constraint" :> "-C " @@ "mail_type" :> "--mail-type=" @@
    "mail_user" :> "--mail-user="

supported_options == DOMAIN OPTION_TABLE

\* the option names a target may carry: those of the table and one more
OptionNames == supported_options \cup {"priority"}

OptionValues == {"1"}

\* target.options.items(): a mapping, so no name twice, in some order
OptionMappings ==
    UNION {{o \in [1..n -> OptionNames \X OptionValues] :
                \A i, j \in 1..n : o[i][1] = o[j][1] => i = j} : n \in 0..MaxOptions}

\* "#SBATCH {0}{1}".format(prefix, value)
Directive(prefix, value) == <<"#SBATCH ", prefix, value>>

\* the for loop of _compile_script over the first n items
RECURSIVE DirectiveLines(_, _)
DirectiveLines(options, n) ==
    IF n = 0 THEN <<>>
    ELSE LET option_name == options[n][1]
             option_value == options[n][2]
         IN IF option_name \notin supported_options
            THEN DirectiveLines(options, n - 1)
            ELSE Append(DirectiveLines(options, n - 1),
                        Directive(OPTION_TABLE[option_name], option_value))

\* the lines _compile_script joins
compile_script(options) ==
    <<(<<"#!/bin/bash">>)>> \o DirectiveLines(options, Len(options))
    \o << <<"">>, <<"### Generated by GWF">>, <<"cd ", "working_dir">>,
          <<"export GWF_JOBID=$SLURM_JOBID">>,
          <<"export GWF_TARGET_NAME=", "name">>, <<"set -e">>, <<"">>,
          <<"spec">> >>

\* options[key] of the older backend
Lookup(options, key) ==
    options[CHOOSE i \in DOMAIN options : options[i][1] = key][2]

Has(options, key) == \E i \in DOMAIN options : options[i][1] = key

\* the optional lines of write_script_header, in the order of its if statements
OptionalHeader == <<"queue", "account", "constraint", "mail_type", "mail_user">>

RECURSIVE OptionalLines(_, _)
OptionalLines(options, n) ==
    IF n = 0 THEN <<>>
    ELSE IF Has(options, OptionalHeader[n])
         THEN Append(OptionalLines(options, n - 1),
                     Directive(OPTION_TABLE[OptionalHeader[n]],
                               Lookup(options, OptionalHeader[n])))
         ELSE OptionalLines(options, n - 1)

\* write_script_header of the older backend: options['nodes'] and the three
\* after it are read without a test
write_script_header(options) ==
    IF \E key \in {"nodes", "cores", "memory", "walltime"} : ~Has(options, key)
    THEN [by |-> "write_script_header", lines |-> <<>>, raised |-> "KeyError"]
    ELSE [by |-> "write_script_header",
          lines |-> << Directive("-N ", Lookup(options, "nodes")),
                       Directive("-c ", Lookup(options, "cores")),
                       Directive("--mem=", Lookup(options, "memory")),
                       Directive("-t ", Lookup(options, "walltime")) >>
                    \o OptionalLines(options, Len(OptionalHeader)),
          raised |-> "none"]

\* SlurmBackend._compile_script(target)
CompileScript ==
    /\ script = NoScript
    /\ script' = [by |-> "_compile_script", lines |-> compile_script(target_options),
                  raised |-> "none"]
    /\ UNCHANGED <<target_options, squeue_out, db_file, job_db, live_job_states,
                   slurm_pc, slurmOpVars, localVars>>

\* the older SlurmBackend.write_script_header(f, options)
WriteScriptHeader ==
    /\ script = NoScript
    /\ script' = write_script_header(target_options)
    /\ UNCHANGED <<target_options, squeue_out, db_file, job_db, live_job_states,
                   slurm_pc, slurmOpVars, localVars>>

InitScript ==
    /\ InitLocal
    /\ squeue_out = <<>>
    /\ db_file = [exists |-> FALSE, content |-> <<>>]
    /\ job_db = <<>>
    /\ live_job_states = <<>>
    /\ slurm_pc = "idle"
    /\ tmp_file = NoFile
    /\ tool_calls = <<>>
    /\ slurm_error = NoError
    /\ slurm_op = NoOp
    /\ target_options \in OptionMappings
    /\ script = NoScript

NextScript == CompileScript \/ WriteScriptHeader

SpecScript == InitScript /\ [][NextScript]_vars

\* the lines of a script that are directives
RECURSIVE Directives(_, _)
Directives(lines, n) ==
    IF n = 0 THEN <<>>
    ELSE IF lines[n][1] = "#SBATCH "
         THEN Append(Directives(lines, n - 1), lines[n])
         ELSE Directives(lines, n - 1)

\* the order of the option table
OptionOrder ==
    <<"nodes", "cores", "memory", "walltime", "queue", "account", "constraint",
      "mail_type", "mail_user">>

\* the directives of the options present, in the order of the option table
RECURSIVE OrderedDirectives(_, _)
OrderedDirectives(options, n) ==
    IF n = 0 THEN <<>>
    ELSE IF Has(options, OptionOrder[n])
         THEN Append(OrderedDirectives(options, n - 1),
                     Directive(OPTION_TABLE[OptionOrder[n]],
                               Lookup(options, OptionOrder[n])))
         ELSE OrderedDirectives(options, n - 1)

\* C25: the directives of a generated script are one line for each option
\* of the target whose name is in the option table, none for any other
\* name, in the order nodes, cores, memory, walltime, queue, account,
\* constraint, mail_type, mail_user whatever the order of the mapping
DirectivesInFixedOrder ==
    script.by = "_compile_script" =>
        Directives(script.lines, Len(script.lines))
            = OrderedDirectives(target_options, Len(OptionOrder))

\* ---------------------------------------------------------------------
\* C26: no task id is the subject of more than one run_task message: a task
\* that has been dispatched, or failed by a pass because a dependency
\* failed, is out of the pending set, and a submitted task that is out of
\* the pending set never enters it again
TaskDispatchedAtMostOnce ==
    /\ [](\A t \in DOMAIN task_states :
            /\ run_sent[t] <= 1
            /\ (run_sent[t] = 1 \/ task_states[t] = FAILED) => t \notin pending_tasks)
    /\ [][\A t \in DOMAIN task_states :
            t \notin pending_tasks => t \notin pending_tasks']_vars

\* one task ran and failed, its dependent was failed without running, a
\* third ran to completion
RanFailedAndCascaded ==
    /\ DOMAIN task_states = TaskIds
    /\ pending_tasks = {}
    /\ \E a, b, c \in TaskIds :
          /\ run_sent[a] = 1 /\ task_states[a] = FAILED
          /\ run_sent[b] = 0 /\ task_states[b] = FAILED /\ a \in tasks[b]
          /\ run_sent[c] = 1 /\ task_states[c] = COMPLETED

\* C27: the server sends no run_task to a worker after Server.shutdown has
\* sent it shutdown: no run_task stands behind a shutdown in a worker's
\* connection, and none is unread at a worker that has read its shutdown
NoRunTaskAfterShutdown ==
    \A w \in Workers :
        /\ OutOfOrder(from_server[w], "shutdown", "run_task") = {}
        /\ (worker_shutdown[w] \/ worker_pc[w] = "done")
              => Pending(from_server[w], "run_task") = {}

\* ---------------------------------------------------------------------
\* the joined workers that are not a value of self._used_workers
IdleWorkers == JoinedIds(joined_workers) \ Range(used_workers)

\* the pending tasks whose dependencies are all COMPLETED
ReadyPending ==
    {t \in pending_tasks : \A d \in tasks[t] : StateOf(task_states, d) = COMPLETED}

\* the server's loop has run, to its end, a handler that ends with a pass
PassHandled(c) ==
    /\ \/ Readable(c, "join_worker")
       \/ Readable(c, "submit_task")
       \/ Readable(c, "update_task_state")
    /\ to_server'[c] = Tail(to_server[c])
    /\ server_pc' = "loop"

\* C28: when handle_join_worker, handle_submit_task or
\* handle_update_task_state has returned, no pending task has all its
\* dependencies COMPLETED while a joined worker has no task assigned
SchedulerIsWorkConserving ==
    [][\A c \in Conns :
          PassHandled(c) => (ReadyPending' = {} \/ IdleWorkers' = {})]_vars

\* a dependency has completed, its dependent has been handed to the worker
\* that is free again, and a third task waits for that one
DependentDispatchedOthersWait ==
    /\ IdleWorkers = {}
    /\ pending_tasks # {}
    /\ \E t \in DOMAIN used_workers :
          /\ tasks[t] # {}
          /\ \A d \in tasks[t] : StateOf(task_states, d) = COMPLETED
          /\ \E p \in pending_tasks : t \in tasks[p]

\* ---------------------------------------------------------------------
\* the server has handled a FAILED or COMPLETED update_task_state
TerminalUpdateHandled(c) ==
    /\ Readable(c, "update_task_state")
    /\ IsTerminal(StatusByName(Head(to_server[c]).new_state))
    /\ to_server'[c] = Tail(to_server[c])

\* C29: the keys of self._used_workers are the tasks that have been
\* dispatched and have no FAILED or COMPLETED state yet, none of them
\* pending; so every FAILED or COMPLETED update the server handles names a
\* task with an entry, and del self._used_workers[task_id] does not raise
AssignmentKeysAreTasksInFlight ==
    /\ [](/\ DOMAIN used_workers =
                {t \in DOMAIN task_states :
                    run_sent[t] >= 1 /\ task_states[t] \notin {FAILED, COMPLETED}}
          /\ DOMAIN used_workers \cap pending_tasks = {})
    /\ [][\A c \in Conns :
            TerminalUpdateHandled(c) =>
                /\ Head(to_server[c]).task_id \in DOMAIN used_workers
                /\ Head(to_server[c]).task_id \notin DOMAIN used_workers'
                /\ server_pc' = "loop"]_vars

\* the entry of a finished task is gone while its dependent runs
EntryRemovedDependentRunning ==
    \E t \in DOMAIN used_workers :
        /\ task_states[t] = RUNNING
        /\ \E d \in tasks[t] :
              /\ run_sent[d] = 1
              /\ task_states[d] = COMPLETED
              /\ d \notin DOMAIN used_workers

\* ---------------------------------------------------------------------
\* A worker that joins under the id of one that has left

\* the number of times a worker joins again
MaxRejoins == 1

\* Worker.connect(worker_id, hostname, port) and Worker.start, called with
\* the id of a worker whose connection the server has closed: a new socket,
\* and join_worker as its first message
WorkerRejoin(w) ==
    /\ Len(joined_workers) < NumWorkers + MaxRejoins
    /\ server_pc = "loop"
    /\ worker_pc[w] = "done"
    /\ w \notin conns
    /\ to_server[w] = <<>>
    /\ conns' = conns \cup {w}
    /\ to_server' = [to_server EXCEPT ![w] = <<JoinWorkerMsg(w)>>]
    /\ from_server' = [from_server EXCEPT ![w] = <<>>]
    /\ worker_pc' = [worker_pc EXCEPT ![w] = "recv"]
    /\ worker_task' = [worker_task EXCEPT ![w] = None]
    /\ worker_shutdown' = [worker_shutdown EXCEPT ![w] = FALSE]
    /\ UNCHANGED <<shutdown_requested, clusterVars>>
    /\ ClusterFrame

\* two tasks without dependencies, or each task depending on the one before
RejoinWorkflows ==
    {[t \in 1..2 |-> {}], [t \in TaskIds |-> {t - 1} \cap TaskIds]}

InitRejoin == (\E wf \in RejoinWorkflows : LocalState(wf, 0)) /\ SlurmIdle

NextRejoin ==
    \/ NextStop
    \/ \E w \in Workers : WorkerRejoin(w)

SpecRejoin == InitRejoin /\ [][NextRejoin]_vars

\* worker w has left, its leave_worker handled, while task t assigned to it
\* has no FAILED or COMPLETED state
LeftHolding(t, w) ==
    /\ t \in DOMAIN used_workers
    /\ used_workers[t] = w
    /\ ~IsTerminal(task_states[t])
    /\ worker_pc[w] = "done"
    /\ w \notin JoinedIds(joined_workers)
    /\ Pending(to_server[w], "leave_worker") = {}

\* C30: an entry of self._used_workers goes only when a FAILED or COMPLETED
\* update for its task is handled; the entry of a task whose worker has left
\* without a terminal report stays for ever; and a worker id that is the
\* value of an entry that stays is sent no run_task, also when a worker has
\* joined again under that id
StaleAssignmentBlocksWorkerId ==
    /\ [][\A t \in DOMAIN used_workers :
            t \notin DOMAIN used_workers' =>
                \E c \in Conns :
                    TerminalUpdateHandled(c) /\ Head(to_server[c]).task_id = t]_vars
    /\ \A t \in TaskIds : \A w \in Workers :
          [](LeftHolding(t, w) => [](t \in DOMAIN used_workers /\ used_workers[t] = w))
    /\ [][\A t \in DOMAIN used_workers \cap DOMAIN used_workers' :
            Cardinality(Pending(from_server'[used_workers[t]], "run_task"))
                <= Cardinality(Pending(from_server[used_workers[t]], "run_task"))]_vars

\* a worker has joined again under the id of one that left holding a task:
\* it is idle, a task is ready, and the pass has given it nothing
RejoinedWorkerStarved ==
    \E w \in Workers :
        /\ w \in JoinedIds(joined_workers)
        /\ worker_pc[w] = "recv"
        /\ from_server[w] = <<>>
        /\ to_server[w] = <<>>
        /\ \E t \in DOMAIN used_workers :
              used_workers[t] = w /\ task_states[t] = SUBMITTED
        /\ ReadyPending # {}

=============================================================================
